---- MODULE Spec2Model ----
(***************************************************************************)
(* A model of think-tool.go: one ThinkTool (a mutex and a slice of         *)
(* ThoughtItem) shared by the goroutines that serve the three tool calls   *)
(* Think, GetThoughts and ClearThoughts.                                   *)
(*                                                                         *)
(* A Go string is a sequence of bytes; a byte is written here as a short   *)
(* string ("a", " ", "C3", ...), so len(s) is Len(s) and s[:n] is          *)
(* SubSeq(s, 1, n).                                                        *)
(***************************************************************************)
EXTENDS Integers, Sequences, FiniteSets, Bags, TLC

\* ------------------------------------------------------------------ bounds

\* Number of goroutines serving tool calls concurrently.
NumProcs == 2

\* Total number of tool calls invoked in one behaviour.
MaxCalls == 4

\* Largest reading of the clock, in ticks.
MaxClock == 1

\* Clock ticks per second: RFC3339 keeps whole seconds only.
TicksPerSecond == 1

\* --------------------------------------------------------- program constants

\* tidyThought: if len(thought) > 50 { return thought[:50] + "..." }
EchoLimit == 50

Procs == 1 .. NumProcs

\* ------------------------------------------------------------------ strings

Rep(b, n) == [i \in 1 .. n |-> b]

\* U+00E9 in UTF-8: a lead byte and a continuation byte.
EAcute == <<"C3", "A9">>

IsContinuation(b) == b \in {"A9"}

\* The thoughts a caller may send (ThinkInput.Thought): the empty string, a
\* one-byte string (a blank), and a string of 50 characters whose last
\* character takes two bytes, 51 bytes in all.
Inputs ==
    { <<>>, <<" ">>, Rep("a", EchoLimit - 1) \o EAcute }

DigitChar(d) == <<"0", "1", "2", "3", "4", "5", "6", "7", "8", "9">>[d + 1]

\* fmt's %d of a non-negative int.
RECURSIVE Itoa(_)
Itoa(n) == IF n < 10 THEN <<DigitChar(n)>>
           ELSE Itoa(n \div 10) \o <<DigitChar(n % 10)>>

\* time.Time.Format(time.RFC3339) of the clock reading t (in ticks): the
\* sub-second part is dropped; the date and hour:minute fields, constant
\* within the modelled time span, are left out of the text.
RFC3339(t) ==
    LET sec == (t \div TicksPerSecond) % 60
    IN  <<"T">> \o (IF sec < 10 THEN <<"0">> ELSE <<>>) \o Itoa(sec) \o <<"Z">>

\* strings.Join(elems, sep)
RECURSIVE Join(_, _)
Join(elems, sep) ==
    IF Len(elems) = 0 THEN <<>>
    ELSE IF Len(elems) = 1 THEN elems[1]
    ELSE elems[1] \o sep \o Join(Tail(elems), sep)

\* tidyThought: the thought as echoed in the acknowledgement.
tidyThought(thought) ==
    IF Len(thought) > EchoLimit
    THEN SubSeq(thought, 1, EchoLimit) \o <<".", ".", ".">>
    ELSE thought

\* fmt.Sprintf("Thought: %s", echo)
ThinkText(echo) ==
    <<"T", "h", "o", "u", "g", "h", "t", ":", " ">> \o echo

\* The range index itself as the number shown.
PositionZeroBased(i) == i

\* i+1 in the loop of GetThoughts, for the 0-based range index i.
Position(i) == i + 1

\* fmt.Sprintf("Thought #%d at %s:\n%s\n", n, item.CreatedAt, item.Thought)
FormatThought(n, item) ==
    <<"T", "h", "o", "u", "g", "h", "t", " ", "#">> \o Itoa(n)
        \o <<" ", "a", "t", " ">> \o item.CreatedAt \o <<":", "\n">>
        \o item.Thought \o <<"\n">>

\* An item that stores the echo in place of the thought.
ThoughtItemTidy(thought, t) ==
    [Thought |-> tidyThought(thought), CreatedAt |-> RFC3339(t)]

\* ThoughtItem{Thought: thought, CreatedAt: time.Now().Format(time.RFC3339)}
ThoughtItem(thought, t) == [Thought |-> thought, CreatedAt |-> RFC3339(t)]

\* An append that puts the new item first.
AppendFront(list, item) == <<item>> \o list

\* An append that skips a thought the list already holds.
AppendItemDedup(list, item) ==
    IF \E k \in 1 .. Len(list) : list[k].Thought = item.Thought
    THEN list
    ELSE Append(list, item)

\* append(list, item)
AppendItem(list, item) == Append(list, item)

\* A clear that keeps the list.
NoThoughtsKeep(list) == list

\* []ThoughtItem{}, assigned over the list.
NoThoughts(list) == <<>>

\* A check that lets every thought through.
IsEmptyNever(thought) == FALSE

\* A check that trims blanks first (strings.TrimSpace).
IsEmptyTrimmed(thought) == \A i \in 1 .. Len(thought) : thought[i] = " "

\* len(thought) == 0
IsEmpty(thought) == Len(thought) = 0

\* A check that never finds the list empty.
NothingRecordedNever(list) == FALSE

\* len(t.thoughts) == 0
NothingRecorded(list) == Len(list) = 0

\* The errors and the fixed confirmation.
ErrNoThoughtsProvided == "no thoughts provided"

ErrNoThoughtsRecorded ==
    "no thoughts recorded. Use the think tool to record a thought first."

ClearedText ==
    <<"T", "h", "o", "u", "g", "h", "t", "s", " ",
      "c", "l", "e", "a", "r", "e", "d", ".">>

\* -------------------------------------------------------------------- state

VARIABLES
    mu,        \* ThinkTool.mu: 0 when unlocked, else the goroutine holding it
    thoughts,  \* ThinkTool.thoughts
    now,       \* the last reading of the clock, in ticks
    pc,        \* where each goroutine is in its call
    arg,       \* params.Arguments.Thought of the call in progress
    tmp,       \* Think: t.thoughts as read by the append expression
    rng,       \* GetThoughts: the slice the range loop walks
    idx,       \* GetThoughts: the number of loop iterations done
    out,       \* GetThoughts: the local thoughts []string
    result,    \* what each goroutine's last call returned, held by its caller
               \* until the goroutine serves its next call
    calls,     \* the number of calls invoked so far
    before,    \* history: t.thoughts when the call in progress took the lock
    acked,     \* history: thoughts acknowledged since the last clear took effect
    invoked,   \* history: the bag of non-empty thoughts submitted so far
    overlap,   \* history: whether two Think calls were ever in progress at once
    cleared,   \* history: whether the list was ever cleared
    dropped,   \* history: whether a clear ever removed an acknowledged thought
    clearRun,  \* history: consecutive ClearThoughts returns, counted up to 2
    atCall,    \* history: for each Think or GetThoughts call in progress,
               \* the thoughts that were acknowledged and not cleared when it
               \* was invoked (seen), and whether a clear has taken effect
               \* since (cut)
    track      \* which history is kept: atCall when TRUE, else invoked,
               \* overlap and clearRun

locals == <<arg, tmp, rng, idx, out>>
history == <<before, acked, invoked, overlap, cleared, dropped, clearRun, atCall,
             track>>
vars == <<mu, thoughts, now, pc, locals, result, calls, history>>

NotCalled == [cut |-> FALSE, seen |-> <<>>]

NoResult == [op |-> "none", arg |-> <<>>, err |-> "", text |-> <<>>]

Failure(op, a, e) == [op |-> op, arg |-> a, err |-> e, text |-> <<>>]

Success(op, a, t) == [op |-> op, arg |-> a, err |-> "", text |-> t]

Start ==
    /\ mu = 0
    /\ thoughts = <<>>
    /\ now = 0
    /\ pc = [p \in Procs |-> "idle"]
    /\ arg = [p \in Procs |-> <<>>]
    /\ tmp = [p \in Procs |-> <<>>]
    /\ rng = [p \in Procs |-> <<>>]
    /\ idx = [p \in Procs |-> 0]
    /\ out = [p \in Procs |-> <<>>]
    /\ result = [p \in Procs |-> NoResult]
    /\ calls = 0
    /\ before = [p \in Procs |-> <<>>]
    /\ acked = <<>>
    /\ invoked = EmptyBag
    /\ overlap = FALSE
    /\ cleared = FALSE
    /\ dropped = FALSE
    /\ clearRun = 0
    /\ atCall = [p \in Procs |-> NotCalled]

\* thinkTool := &ThinkTool{}
Init == Start /\ track = FALSE

\* The same, keeping the history of what each call found at its invocation.
InitRT == Start /\ track = TRUE

\* ----------------------------------------------------------------- the lock

\* A lock that is taken without waiting for its holder.
LockNoWait(p) == mu' = p

\* t.mu.Lock(): blocks until the mutex is free.
Lock(p) == mu = 0 /\ mu' = p

\* defer t.mu.Unlock()
Unlock(p) == mu' = 0

\* One result object shared by every caller.
ReturnShared(p, r) == result' = [q \in Procs |-> r]

\* return r, err: a value of the call's own, handed to its caller.
Return(p, r) == result' = [result EXCEPT ![p] = r]

Goto(p, label) == pc' = [pc EXCEPT ![p] = label]

\* A Think call of goroutine p is in progress.
InThink(p) ==
    pc[p] \in {"think_lock", "think_check", "think_append", "think_ret"}

\* A GetThoughts call of goroutine p is in progress.
InGet(p) == pc[p] \in {"get_lock", "get_check", "get_loop"}

\* -------------------------------------------------------------------- Think

\* The server hands goroutine p a think call with the thought s.
ThinkCall(p, s) ==
    /\ pc[p] = "idle"
    /\ calls < MaxCalls
    /\ calls' = calls + 1
    /\ arg' = [arg EXCEPT ![p] = s]
    /\ result' = [result EXCEPT ![p] = NoResult]
    /\ invoked' = IF Len(s) > 0 /\ ~track THEN invoked (+) SetToBag({s})
                   ELSE invoked
    /\ overlap' = (overlap \/ (~track /\ \E q \in Procs \ {p} : InThink(q)))
    /\ Goto(p, "think_lock")
    /\ atCall' = IF track THEN [atCall EXCEPT ![p] = [cut |-> FALSE, seen |-> acked]]
                  ELSE atCall
    /\ UNCHANGED track
    /\ UNCHANGED <<mu, thoughts, now, tmp, rng, idx, out,
                   before, acked, cleared, dropped, clearRun>>

\* t.mu.Lock(); defer t.mu.Unlock()
ThinkLock(p) ==
    /\ pc[p] = "think_lock"
    /\ Lock(p)
    /\ before' = [before EXCEPT ![p] = thoughts]
    /\ Goto(p, "think_check")
    /\ UNCHANGED <<thoughts, now, locals, result, calls,
                   acked, invoked, overlap, cleared, dropped, clearRun,
                   atCall, track>>

\* An early return that leaves the lock held (no defer).
ThinkRejectKeepsLock(p) ==
    /\ pc[p] = "think_check"
    /\ IsEmpty(arg[p])
    /\ Return(p, Failure("think", arg[p], ErrNoThoughtsProvided))
    /\ arg' = [arg EXCEPT ![p] = <<>>]
    /\ before' = [before EXCEPT ![p] = <<>>]
    /\ clearRun' = 0
    /\ Goto(p, "idle")
    /\ atCall' = [atCall EXCEPT ![p] = NotCalled]
    /\ UNCHANGED track
    /\ UNCHANGED <<mu, thoughts, now, tmp, rng, idx, out, calls,
                   acked, invoked, overlap, cleared, dropped>>

\* if len(thought) == 0 { return nil, errors.New(...) }, the lock released.
ThinkReject(p) ==
    /\ pc[p] = "think_check"
    /\ IsEmpty(arg[p])
    /\ Return(p, Failure("think", arg[p], ErrNoThoughtsProvided))
    /\ Unlock(p)
    /\ arg' = [arg EXCEPT ![p] = <<>>]
    /\ before' = [before EXCEPT ![p] = <<>>]
    /\ clearRun' = 0
    /\ Goto(p, "idle")
    /\ atCall' = [atCall EXCEPT ![p] = NotCalled]
    /\ UNCHANGED track
    /\ UNCHANGED <<thoughts, now, tmp, rng, idx, out, calls,
                   acked, invoked, overlap, cleared, dropped>>

\* append(t.thoughts, ...): the operand t.thoughts is read first.
ThinkRead(p) ==
    /\ pc[p] = "think_check"
    /\ ~IsEmpty(arg[p])
    /\ tmp' = [tmp EXCEPT ![p] = thoughts]
    /\ Goto(p, "think_append")
    /\ UNCHANGED <<mu, thoughts, now, arg, rng, idx, out, result, calls, history>>

\* An append stamped with a clock reading taken before the lock was held.
ThinkAppendEarlyStamp(p) ==
    /\ pc[p] = "think_append"
    /\ \E t \in now .. (IF now < MaxClock THEN now + 1 ELSE now) :
          /\ now' = t
          /\ \E early \in 0 .. t :
                thoughts' = AppendItem(tmp[p], ThoughtItem(arg[p], early))
    /\ tmp' = [tmp EXCEPT ![p] = <<>>]
    /\ Goto(p, "think_ret")
    /\ UNCHANGED <<mu, arg, rng, idx, out, result, calls, history>>

\* time.Now() is read, the item is appended and the slice stored back; the
\* clock never runs backwards.
ThinkAppend(p) ==
    /\ pc[p] = "think_append"
    /\ \E t \in now .. (IF now < MaxClock THEN now + 1 ELSE now) :
          /\ now' = t
          /\ thoughts' = AppendItem(tmp[p], ThoughtItem(arg[p], t))
    /\ tmp' = [tmp EXCEPT ![p] = <<>>]
    /\ Goto(p, "think_ret")
    /\ UNCHANGED <<mu, arg, rng, idx, out, result, calls, history>>

\* return &mcp.CallToolResultFor{... "Thought: " + tidyThought(thought)}, nil
ThinkReturn(p) ==
    /\ pc[p] = "think_ret"
    /\ Return(p, Success("think", arg[p], ThinkText(tidyThought(arg[p]))))
    /\ Unlock(p)
    /\ acked' = Append(acked, arg[p])
    /\ arg' = [arg EXCEPT ![p] = <<>>]
    /\ before' = [before EXCEPT ![p] = <<>>]
    /\ clearRun' = 0
    /\ Goto(p, "idle")
    /\ atCall' = [atCall EXCEPT ![p] = NotCalled]
    /\ UNCHANGED track
    /\ UNCHANGED <<thoughts, now, tmp, rng, idx, out, calls,
                   invoked, overlap, cleared, dropped>>

\* -------------------------------------------------------------- GetThoughts

\* The server hands goroutine p a get_thoughts call.
GetCall(p) ==
    /\ pc[p] = "idle"
    /\ calls < MaxCalls
    /\ calls' = calls + 1
    /\ result' = [result EXCEPT ![p] = NoResult]
    /\ Goto(p, "get_lock")
    /\ atCall' = IF track THEN [atCall EXCEPT ![p] = [cut |-> FALSE, seen |-> acked]]
                  ELSE atCall
    /\ UNCHANGED track
    /\ UNCHANGED <<mu, thoughts, now, locals,
                   before, acked, invoked, overlap, cleared, dropped, clearRun>>

\* A GetThoughts that reads without taking the lock.
GetLockMissing(p) ==
    /\ pc[p] = "get_lock"
    /\ before' = [before EXCEPT ![p] = thoughts]
    /\ Goto(p, "get_check")
    /\ UNCHANGED <<mu, thoughts, now, locals, result, calls,
                   acked, invoked, overlap, cleared, dropped, clearRun,
                   atCall, track>>

\* t.mu.Lock(); defer t.mu.Unlock()
GetLock(p) ==
    /\ pc[p] = "get_lock"
    /\ Lock(p)
    /\ before' = [before EXCEPT ![p] = thoughts]
    /\ Goto(p, "get_check")
    /\ UNCHANGED <<thoughts, now, locals, result, calls,
                   acked, invoked, overlap, cleared, dropped, clearRun,
                   atCall, track>>

\* if len(t.thoughts) == 0 { return nil, errors.New(...) }, the lock released.
GetEmpty(p) ==
    /\ pc[p] = "get_check"
    /\ NothingRecorded(thoughts)
    /\ Return(p, Failure("get", <<>>, ErrNoThoughtsRecorded))
    /\ Unlock(p)
    /\ before' = [before EXCEPT ![p] = <<>>]
    /\ clearRun' = 0
    /\ Goto(p, "idle")
    /\ atCall' = [atCall EXCEPT ![p] = NotCalled]
    /\ UNCHANGED track
    /\ UNCHANGED <<thoughts, now, locals, calls,
                   acked, invoked, overlap, cleared, dropped>>

\* thoughts := []string{}; the range expression t.thoughts is evaluated once.
GetRange(p) ==
    /\ pc[p] = "get_check"
    /\ ~NothingRecorded(thoughts)
    /\ out' = [out EXCEPT ![p] = <<>>]
    /\ rng' = [rng EXCEPT ![p] = thoughts]
    /\ idx' = [idx EXCEPT ![p] = 0]
    /\ Goto(p, "get_loop")
    /\ UNCHANGED <<mu, thoughts, now, arg, tmp, result, calls, history>>

\* One iteration of the loop.
GetLoop(p) ==
    /\ pc[p] = "get_loop"
    /\ idx[p] < Len(rng[p])
    /\ out' = [out EXCEPT ![p] =
                 Append(@, FormatThought(Position(idx[p]), rng[p][idx[p] + 1]))]
    /\ idx' = [idx EXCEPT ![p] = @ + 1]
    /\ UNCHANGED <<mu, thoughts, now, pc, arg, tmp, rng, result, calls, history>>

\* A GetThoughts that empties the list it has read.
GetReturnDraining(p) ==
    /\ pc[p] = "get_loop"
    /\ idx[p] = Len(rng[p])
    /\ Return(p, Success("get", <<>>, Join(out[p], <<"\n">>)))
    /\ Unlock(p)
    /\ thoughts' = <<>>
    /\ out' = [out EXCEPT ![p] = <<>>]
    /\ rng' = [rng EXCEPT ![p] = <<>>]
    /\ idx' = [idx EXCEPT ![p] = 0]
    /\ before' = [before EXCEPT ![p] = <<>>]
    /\ clearRun' = 0
    /\ Goto(p, "idle")
    /\ atCall' = [atCall EXCEPT ![p] = NotCalled]
    /\ UNCHANGED track
    /\ UNCHANGED <<now, arg, tmp, calls,
                   acked, invoked, overlap, cleared, dropped>>

\* return &mcp.CallToolResultFor{... strings.Join(thoughts, "\n")}, nil
GetReturn(p) ==
    /\ pc[p] = "get_loop"
    /\ idx[p] = Len(rng[p])
    /\ Return(p, Success("get", <<>>, Join(out[p], <<"\n">>)))
    /\ Unlock(p)
    /\ out' = [out EXCEPT ![p] = <<>>]
    /\ rng' = [rng EXCEPT ![p] = <<>>]
    /\ idx' = [idx EXCEPT ![p] = 0]
    /\ before' = [before EXCEPT ![p] = <<>>]
    /\ clearRun' = 0
    /\ Goto(p, "idle")
    /\ atCall' = [atCall EXCEPT ![p] = NotCalled]
    /\ UNCHANGED track
    /\ UNCHANGED <<thoughts, now, arg, tmp, calls,
                   acked, invoked, overlap, cleared, dropped>>

\* ------------------------------------------------------------ ClearThoughts

\* The server hands goroutine p a clear_thoughts call.
ClearCall(p) ==
    /\ pc[p] = "idle"
    /\ calls < MaxCalls
    /\ calls' = calls + 1
    /\ result' = [result EXCEPT ![p] = NoResult]
    /\ Goto(p, "clear_lock")
    /\ UNCHANGED <<mu, thoughts, now, locals, history>>

\* t.mu.Lock(); defer t.mu.Unlock()
ClearLock(p) ==
    /\ pc[p] = "clear_lock"
    /\ Lock(p)
    /\ before' = [before EXCEPT ![p] = thoughts]
    /\ Goto(p, "clear_set")
    /\ UNCHANGED <<thoughts, now, locals, result, calls,
                   acked, invoked, overlap, cleared, dropped, clearRun,
                   atCall, track>>

\* t.thoughts = []ThoughtItem{}
ClearSet(p) ==
    /\ pc[p] = "clear_set"
    /\ thoughts' = NoThoughts(thoughts)
    /\ acked' = <<>>
    /\ cleared' = TRUE
    /\ dropped' = (dropped \/ Len(acked) > 0)
    /\ Goto(p, "clear_ret")
    /\ atCall' = [q \in Procs |->
                     IF track /\ (InThink(q) \/ InGet(q))
                     THEN [cut |-> TRUE, seen |-> <<>>]
                     ELSE atCall[q]]
    /\ UNCHANGED track
    /\ UNCHANGED <<mu, now, locals, result, calls, before, invoked, overlap, clearRun>>

\* A clear that reports an error when there was nothing to clear.
ClearReturnStrict(p) ==
    /\ pc[p] = "clear_ret"
    /\ Return(p, IF Len(before[p]) = 0
                 THEN Failure("clear", <<>>, ErrNoThoughtsRecorded)
                 ELSE Success("clear", <<>>, ClearedText))
    /\ Unlock(p)
    /\ before' = [before EXCEPT ![p] = <<>>]
    /\ clearRun' = IF clearRun < 2 /\ ~track THEN clearRun + 1 ELSE clearRun
    /\ Goto(p, "idle")
    /\ atCall' = [atCall EXCEPT ![p] = NotCalled]
    /\ UNCHANGED track
    /\ UNCHANGED <<thoughts, now, locals, calls,
                   acked, invoked, overlap, cleared, dropped>>

\* return &mcp.CallToolResultFor{... "Thoughts cleared."}, nil
ClearReturn(p) ==
    /\ pc[p] = "clear_ret"
    /\ Return(p, Success("clear", <<>>, ClearedText))
    /\ Unlock(p)
    /\ before' = [before EXCEPT ![p] = <<>>]
    /\ clearRun' = IF clearRun < 2 /\ ~track THEN clearRun + 1 ELSE clearRun
    /\ Goto(p, "idle")
    /\ atCall' = [atCall EXCEPT ![p] = NotCalled]
    /\ UNCHANGED track
    /\ UNCHANGED <<thoughts, now, locals, calls,
                   acked, invoked, overlap, cleared, dropped>>

\* ------------------------------------------------------------ specification

Next ==
    \E p \in Procs :
        \/ \E s \in Inputs : ThinkCall(p, s)
        \/ ThinkLock(p)
        \/ ThinkReject(p)
        \/ ThinkRead(p)
        \/ ThinkAppend(p)
        \/ ThinkReturn(p)
        \/ GetCall(p)
        \/ GetLock(p)
        \/ GetEmpty(p)
        \/ GetRange(p)
        \/ GetLoop(p)
        \/ GetReturn(p)
        \/ ClearCall(p)
        \/ ClearLock(p)
        \/ ClearSet(p)
        \/ ClearReturn(p)

Spec == Init /\ [][Next]_vars

SpecRT == InitRT /\ [][Next]_vars

\* t.mu.Lock() of the call goroutine p is making.
Acquire(p) == ThinkLock(p) \/ GetLock(p) \/ ClearLock(p)

\* A step of goroutine p between Lock and the return of its call.
Body(p) ==
    \/ ThinkReject(p)
    \/ ThinkRead(p)
    \/ ThinkAppend(p)
    \/ ThinkReturn(p)
    \/ GetEmpty(p)
    \/ GetRange(p)
    \/ GetLoop(p)
    \/ GetReturn(p)
    \/ ClearSet(p)
    \/ ClearReturn(p)

\* The Go scheduler runs every runnable goroutine (weak fairness of the steps
\* that need no lock), and sync.Mutex hands the lock to a goroutine that has
\* waited for it over 1ms before any newcomer (starvation mode: strong
\* fairness of Lock). Nothing obliges a client to make a call.
Fairness ==
    \A p \in Procs : WF_vars(Body(p)) /\ SF_vars(Acquire(p))

FairSpec == Spec /\ Fairness

\* ------------------------------------------------------------------- claims

\* Goroutine p is between Lock and Unlock.
InCritical(p) ==
    pc[p] \in {"think_check", "think_append", "think_ret",
               "get_check", "get_loop", "clear_set", "clear_ret"}

\* The Thought fields of a list of items.
Contents(list) == [k \in 1 .. Len(list) |-> list[k].Thought]

\* How often x occurs in the sequence seq.
Count(seq, x) == Cardinality({k \in 1 .. Len(seq) : seq[k] = x})

\* The pieces of a text between its line feeds.
RECURSIVE SplitLines(_)
SplitLines(text) ==
    IF \A i \in 1 .. Len(text) : text[i] # "\n" THEN <<text>>
    ELSE LET k == CHOOSE i \in 1 .. Len(text) :
                      /\ text[i] = "\n"
                      /\ \A j \in 1 .. (i - 1) : text[j] # "\n"
         IN  <<SubSeq(text, 1, k - 1)>>
                 \o SplitLines(SubSeq(text, k + 1, Len(text)))

\* The timestamps an entry can carry.
Stamps == {RFC3339(t) : t \in 0 .. MaxClock}

\* The first line of the paragraph of entry number k.
IsHeaderLine(line, k) ==
    \E ts \in Stamps :
        line = <<"T", "h", "o", "u", "g", "h", "t", " ", "#">> \o Itoa(k)
                   \o <<" ", "a", "t", " ">> \o ts \o <<":">>

\* The listing text shows exactly the given contents, in order, the k-th in a
\* paragraph numbered k, paragraphs separated by an empty line.
Shows(text, contents) ==
    LET lines == SplitLines(text)
    IN  /\ Len(lines) = 3 * Len(contents)
        /\ \A k \in 1 .. Len(contents) :
              /\ IsHeaderLine(lines[3 * k - 2], k)
              /\ lines[3 * k - 1] = contents[k]
              /\ lines[3 * k] = <<>>

\* The content line of one formatted entry.
ContentOf(entry) ==
    LET lines == SplitLines(entry)
    IN  IF Len(lines) >= 2 THEN lines[2] ELSE <<>>

\* GetThoughts of goroutine p has formatted every entry and is about to return.
ListingDone(p) == pc[p] = "get_loop" /\ idx[p] = Len(rng[p])

\* Goroutine p returns from a call whose body ends at one of the labels.
Returns(p, labels) == pc[p] \in labels /\ pc'[p] = "idle"

\* C1 (P8): while no ClearThoughts has run and the non-empty thoughts
\* submitted so far are pairwise distinct, once no Think call is in progress
\* every one of them has been acknowledged exactly once, the list holds as
\* many entries as were submitted, each submitted content is the content of
\* exactly one entry, and a GetThoughts that has formatted the list shows each
\* exactly once; this for every interleaving of the goroutines.
C1_ConcurrentAppendsAllKept ==
    ( /\ ~cleared
      /\ \A p \in Procs : ~InThink(p)
      /\ \A s \in BagToSet(invoked) : CopiesIn(s, invoked) = 1 )
    => /\ Len(thoughts) = BagCardinality(invoked)
       /\ Len(acked) = BagCardinality(invoked)
       /\ \A s \in BagToSet(invoked) :
             /\ Count(acked, s) = 1
             /\ Count(Contents(thoughts), s) = 1
       /\ \A p \in Procs :
             /\ (result[p].op = "think" /\ result[p].arg # <<>>)
                    => result[p].err = ""
             /\ ListingDone(p) =>
                    /\ Len(out[p]) = BagCardinality(invoked)
                    /\ \A s \in BagToSet(invoked) :
                          Count([k \in 1 .. Len(out[p]) |-> ContentOf(out[p][k])],
                                s) = 1

\* Two Think calls with distinct contents overlapped, both have returned, and
\* a GetThoughts has formatted the two entries.
C1_Witness ==
    /\ overlap
    /\ ~cleared
    /\ BagCardinality(invoked) = 2
    /\ Cardinality(BagToSet(invoked)) = 2
    /\ \A p \in Procs : ~InThink(p)
    /\ \E p \in Procs : ListingDone(p) /\ Len(out[p]) = 2

\* C2 (P1): a Think call with a non-empty thought s returns with the list one
\* entry longer than it was when the call took the lock, and the new last
\* entry holds s itself, never the shortened echo.
C2_ThinkAddsExactlyOne ==
    [][\A p \in Procs :
          (Returns(p, {"think_ret"}) /\ arg[p] # <<>>)
          => /\ Len(thoughts') = Len(before[p]) + 1
             /\ thoughts'[Len(thoughts')].Thought = arg[p]]_vars

\* A thought longer than the echo limit was acknowledged and is the last of
\* at least two entries, stored in full.
C2_Witness ==
    \E p \in Procs :
        /\ result[p].op = "think"
        /\ result[p].err = ""
        /\ Len(result[p].arg) > EchoLimit
        /\ Len(thoughts) >= 2
        /\ thoughts[Len(thoughts)].Thought = result[p].arg

\* C3 (P2): a Think call with the empty string returns the error "no thoughts
\* provided" and leaves the list exactly as it was when the call took the lock.
C3_EmptyThoughtRejected ==
    [][\A p \in Procs :
          (Returns(p, {"think_check", "think_append", "think_ret"})
              /\ arg[p] = <<>>)
          => /\ result'[p].op = "think"
             /\ result'[p].err = ErrNoThoughtsProvided
             /\ thoughts' = before[p]
             /\ thoughts' = thoughts]_vars

\* An empty thought was rejected while the list held an entry.
C3_Witness ==
    \E p \in Procs :
        /\ result[p].op = "think"
        /\ result[p].arg = <<>>
        /\ result[p].err = ErrNoThoughtsProvided
        /\ Len(thoughts) > 0

\* C4 (P3): while no ClearThoughts has run, a GetThoughts that succeeds
\* returns a text of exactly as many paragraphs as thoughts were acknowledged,
\* in the order of their acknowledgement, the i-th numbered i (from 1) and
\* carrying the i-th thought in full.
C4_ListingInOrder ==
    [][\A p \in Procs :
          (Returns(p, {"get_loop"}) /\ ~cleared)
          => /\ result'[p].err = ""
             /\ Shows(result'[p].text, acked)]_vars

\* A listing of two different thoughts was returned.
C4_Witness ==
    \E p \in Procs :
        /\ result[p].op = "get"
        /\ result[p].err = ""
        /\ ~cleared
        /\ Len(acked) = 2
        /\ acked[1] # acked[2]
        /\ Len(acked[1]) > EchoLimit
        /\ Shows(result[p].text, acked)

\* C5 (P4): once ClearThoughts has run, a GetThoughts returning before any
\* further thought is acknowledged fails with "no thoughts recorded", and one
\* returning after fails not and shows exactly the thoughts acknowledged since
\* the clear, numbered from 1: no entry from before the clear reappears.
C5_ClearResets ==
    [][\A p \in Procs :
          (Returns(p, {"get_check", "get_loop"}) /\ cleared)
          => IF acked = <<>>
             THEN result'[p].err = ErrNoThoughtsRecorded
             ELSE /\ result'[p].err = ""
                  /\ Shows(result'[p].text, acked)]_vars

\* A clear removed an acknowledged thought, one thought was acknowledged
\* after it, and a listing showing just that thought, numbered 1, was returned.
C5_Witness ==
    \E p \in Procs :
        /\ cleared
        /\ dropped
        /\ Len(acked) = 1
        /\ result[p].op = "get"
        /\ result[p].err = ""
        /\ Shows(result[p].text, acked)

\* The number of characters of a UTF-8 string: its bytes that are not
\* continuation bytes.
CharLen(s) == Cardinality({i \in 1 .. Len(s) : ~IsContinuation(s[i])})

\* The first n characters of a UTF-8 string.
FirstChars(s, n) ==
    LET ends == {k \in 0 .. Len(s) :
                    /\ CharLen(SubSeq(s, 1, k)) <= n
                    /\ (k < Len(s) => ~IsContinuation(s[k + 1]))}
        last == CHOOSE k \in ends : \A j \in ends : j <= k
    IN  SubSeq(s, 1, last)

\* C6 (P5), as claimed: the acknowledgement of a thought of at most 50
\* characters carries the thought unmodified, that of a longer one its first
\* 50 characters followed by "...", and the stored content is the full input.
C6_EchoByCharacters ==
    \A p \in Procs :
        /\ (result[p].op = "think" /\ result[p].err = "")
           => result[p].text =
                 <<"T", "h", "o", "u", "g", "h", "t", ":", " ">>
                     \o (IF CharLen(result[p].arg) <= EchoLimit
                         THEN result[p].arg
                         ELSE FirstChars(result[p].arg, EchoLimit)
                                  \o <<".", ".", ".">>)
        /\ pc[p] = "think_ret"
           => /\ Len(thoughts) > 0
              /\ thoughts[Len(thoughts)].Thought = arg[p]

\* C7 (P6): GetThoughts returns the error "no thoughts recorded" exactly when
\* the list is empty as it runs, and succeeds otherwise; on a notebook no
\* thought was ever submitted to, it fails.
C7_EmptyStateIffEmpty ==
    [][\A p \in Procs :
          Returns(p, {"get_check", "get_loop"})
          => /\ result'[p].op = "get"
             /\ result'[p].err \in {"", ErrNoThoughtsRecorded}
             /\ (result'[p].err = ErrNoThoughtsRecorded) <=> (Len(thoughts) = 0)
             /\ (invoked = EmptyBag) => (result'[p].err = ErrNoThoughtsRecorded)]_vars

\* One GetThoughts failed on the notebook while it was empty and another
\* succeeded once a thought was recorded.
C7_Witness ==
    \E p, q \in Procs :
        /\ result[p].op = "get"
        /\ result[p].err = ErrNoThoughtsRecorded
        /\ result[q].op = "get"
        /\ result[q].err = ""
        /\ Len(result[q].text) > 0

\* C8 (P7): ClearThoughts never fails: every return of it carries no error
\* and the text "Thoughts cleared.", and the list is empty from its assignment
\* to its return, whether or not the list was empty before (a second clear in
\* a row finds it empty and leaves it so).
C8_ClearIdempotent ==
    \A p \in Procs :
        /\ pc[p] = "clear_ret" => Len(thoughts) = 0
        /\ result[p].op = "clear"
               => /\ result[p].err = ""
                  /\ result[p].text =
                        <<"T", "h", "o", "u", "g", "h", "t", "s", " ",
                          "c", "l", "e", "a", "r", "e", "d", ".">>

\* Two clears in a row have returned, the first of which removed a thought.
C8_Witness ==
    /\ clearRun = 2
    /\ dropped
    /\ Len(thoughts) = 0
    /\ \E p \in Procs : result[p].op = "clear" /\ result[p].err = ""

\* C9: at most one goroutine is between Lock and Unlock, and it is the
\* holder of the mutex; while it is there the list changes only by its own
\* hand: a GetThoughts has formatted, at every point of its loop, the first
\* entries of the list as it stands (so the listing it returns is the whole
\* list of one instant), and a Think appends to the list it read.
C9_NoTornState ==
    /\ Cardinality({p \in Procs : InCritical(p)}) <= 1
    /\ \A p \in Procs :
          /\ InCritical(p) => mu = p
          /\ pc[p] \in {"get_check", "get_loop", "think_check", "clear_set"}
                 => thoughts = before[p]
          /\ pc[p] = "think_append" => tmp[p] = thoughts
          /\ pc[p] = "get_loop"
                 => /\ idx[p] <= Len(thoughts)
                    /\ Len(out[p]) = idx[p]
                    /\ \A k \in 1 .. idx[p] :
                          /\ ContentOf(out[p][k]) = thoughts[k].Thought
                          /\ IsHeaderLine(SplitLines(out[p][k])[1], k)

\* A GetThoughts is inside its loop, one entry formatted and one to go,
\* while another goroutine waits for the lock to append or to clear.
C9_Witness ==
    \E p, q \in Procs :
        /\ pc[p] = "get_loop"
        /\ idx[p] = 1
        /\ Len(thoughts) = 2
        /\ pc[q] \in {"think_lock", "clear_lock"}

\* C10: the value a call returned stays as it is while its caller holds it:
\* no step of any goroutine changes it, until the goroutine that returned it
\* serves its next call.
C10_ResultsAreSnapshots ==
    [][\A p \in Procs :
          (pc[p] = "idle" /\ pc'[p] = "idle") => result'[p] = result[p]]_vars

\* A listing was returned and is still held, unchanged, after a later
\* ClearThoughts emptied the list.
C10_Witness ==
    \E p \in Procs :
        /\ pc[p] = "idle"
        /\ result[p].op = "get"
        /\ result[p].err = ""
        /\ Len(result[p].text) > 0
        /\ cleared
        /\ Len(thoughts) = 0

\* C11: GetThoughts is read-only: when it returns, with a listing or with the
\* error for an empty list, the list (length, order, contents, timestamps) is
\* what it was when the call took the lock, and no step of the call in
\* between changes it.
C11_GetThoughtsReadOnly ==
    [][\A p \in Procs :
          /\ Returns(p, {"get_check", "get_loop"}) => thoughts' = before[p]
          /\ (pc[p] \in {"get_check", "get_loop"} /\ pc'[p] # "idle")
                 => thoughts' = thoughts]_vars

\* One GetThoughts has failed on the empty list and another has returned a
\* listing of two entries, which are still there.
C11_Witness ==
    \E p, q \in Procs :
        /\ result[p].op = "get"
        /\ result[p].err = ErrNoThoughtsRecorded
        /\ result[q].op = "get"
        /\ result[q].err = ""
        /\ ~cleared
        /\ Len(thoughts) = 2
        /\ Shows(result[q].text, Contents(thoughts))

\* C12: in every reachable state every stored entry has a non-empty Thought,
\* whatever calls were made, Think calls with the empty string among them.
C12_NoEmptyEntry ==
    \A k \in 1 .. Len(thoughts) : Len(thoughts[k].Thought) > 0

\* A Think with the empty string has returned while the list holds entries.
C12_Witness ==
    \E p \in Procs :
        /\ result[p].op = "think"
        /\ result[p].arg = <<>>
        /\ Len(thoughts) >= 2
        /\ \E k \in 1 .. Len(thoughts) : thoughts[k].Thought = <<" ">>

\* C13: a goroutine that is not between Lock and Unlock does not hold the
\* mutex: after a call has returned, with a result or with an error, the
\* mutex is not held by it, and when no call is in its critical section the
\* mutex is free for the next call.
C13_LockReleasedOnEveryPath ==
    /\ \A p \in Procs : ~InCritical(p) => mu # p
    /\ (\A p \in Procs : ~InCritical(p)) => mu = 0

\* A call has failed and returned, and a Think that took the lock after it
\* holds the lock now, its entry appended.
C13_Witness ==
    \E p, q \in Procs :
        /\ pc[q] = "idle"
        /\ result[q].err # ""
        /\ pc[p] = "think_ret"
        /\ mu = p
        /\ Len(thoughts) >= 1

\* list is the beginning of other.
IsPrefix(list, other) ==
    /\ Len(list) <= Len(other)
    /\ \A k \in 1 .. Len(list) : list[k] = other[k]

\* C15: every step but the assignment of ClearThoughts leaves the list as it
\* was at the beginning of the new list, entries unchanged and in place; the
\* append of Think makes it exactly one longer, also when the thought equals
\* one already there; the assignment of ClearThoughts, the only step to
\* shorten the list, leaves it empty.
C15_MonotonicGrowth ==
    [][IF \E p \in Procs : pc[p] = "clear_set" /\ pc'[p] = "clear_ret"
       THEN thoughts' = <<>>
       ELSE /\ IsPrefix(thoughts, thoughts')
            /\ \A p \in Procs :
                  (pc[p] = "think_append" /\ pc'[p] = "think_ret")
                  => /\ Len(thoughts') = Len(thoughts) + 1
                     /\ thoughts'[Len(thoughts')].Thought = arg[p]]_vars

\* The list holds the same thought twice, and a clear has emptied an
\* earlier list.
C15_Witness ==
    /\ dropped
    /\ Len(thoughts) = 2
    /\ thoughts[1].Thought = thoughts[2].Thought

\* C18: Think fails exactly when the thought has length 0, and then with "no
\* thoughts provided"; any longer thought, one of blanks only included, is
\* accepted whatever the list holds, and stored byte for byte.
C18_ThinkFailsIffEmpty ==
    \A p \in Procs :
        /\ result[p].op = "think"
               => /\ result[p].err \in {"", ErrNoThoughtsProvided}
                  /\ (result[p].err = ErrNoThoughtsProvided)
                         <=> (Len(result[p].arg) = 0)
        /\ pc[p] = "think_ret"
               => /\ Len(arg[p]) > 0
                  /\ Len(thoughts) = Len(before[p]) + 1
                  /\ thoughts[Len(thoughts)].Thought = arg[p]

\* A thought of one blank was accepted as the fourth entry of the list.
C18_Witness ==
    \E p \in Procs :
        /\ result[p].op = "think"
        /\ result[p].arg = <<" ">>
        /\ result[p].err = ""
        /\ Len(thoughts) = MaxCalls
        /\ thoughts[Len(thoughts)].Thought = <<" ">>

\* The digit a digit character stands for.
DigitValue(c) == CHOOSE d \in 0 .. 9 : DigitChar(d) = c

\* The seconds a timestamp text reads.
StampSeconds(ts) == 10 * DigitValue(ts[2]) + DigitValue(ts[3])

\* C19: with a clock that never runs backwards, the timestamps of the stored
\* entries are non-decreasing along the list in every reachable state, also
\* when the Think calls were in progress at once.
C19_TimestampsFollowOrder ==
    \A k \in 1 .. (Len(thoughts) - 1) :
        StampSeconds(thoughts[k].CreatedAt)
            <= StampSeconds(thoughts[k + 1].CreatedAt)

\* Two Think calls overlapped and their entries carry different timestamps.
C19_Witness ==
    /\ overlap
    /\ Len(thoughts) = 2
    /\ thoughts[1].CreatedAt # thoughts[2].CreatedAt

\* C16: a Think or GetThoughts call in its critical section, no clear having
\* taken effect since its invocation, found in the list every thought that
\* was acknowledged before the invocation, in place at the beginning; the
\* entry of such a Think stands after all of them; and a GetThoughts that has
\* formatted the list holds exactly the thoughts acknowledged since the last
\* clear took effect, in order, so none appended before a clear that had
\* returned when it was invoked.
C16_RealTimeOrder ==
    \A p \in Procs :
        /\ (InCritical(p) /\ (InThink(p) \/ InGet(p)) /\ ~atCall[p].cut)
               => IsPrefix(atCall[p].seen, Contents(before[p]))
        /\ (pc[p] = "think_ret" /\ ~atCall[p].cut)
               => /\ IsPrefix(atCall[p].seen, Contents(thoughts))
                  /\ Len(thoughts) > Len(atCall[p].seen)
                  /\ Contents(thoughts) = Contents(before[p]) \o <<arg[p]>>
        /\ ListingDone(p)
               => /\ Contents(rng[p]) = acked
                  /\ Len(out[p]) = Len(acked)
                  /\ \A k \in 1 .. Len(out[p]) : ContentOf(out[p][k]) = acked[k]
                  /\ ~atCall[p].cut => IsPrefix(atCall[p].seen, acked)

\* Think(a) had returned when a GetThoughts and a Think(b), b # a, were
\* invoked; the Think went first, and the GetThoughts has formatted a, then b.
C16_Witness ==
    \E p \in Procs :
        /\ ListingDone(p)
        /\ ~atCall[p].cut
        /\ Len(atCall[p].seen) = 1
        /\ Len(out[p]) = 2
        /\ ContentOf(out[p][1]) = atCall[p].seen[1]
        /\ ContentOf(out[p][2]) # atCall[p].seen[1]

\* The thought a Think call has appended and not yet acknowledged.
Pending ==
    IF \E p \in Procs : pc[p] = "think_ret"
    THEN <<arg[CHOOSE p \in Procs : pc[p] = "think_ret"]>>
    ELSE <<>>

\* C17: in every reachable state the contents of the list are exactly the
\* thoughts of the Think calls that have appended since the last clear took
\* effect (those acknowledged since, then the one appended and not yet
\* acknowledged), in that order; so a clear removes the appends that came
\* before it and none that came after.
C17_ListIsSerialHistory ==
    /\ Contents(thoughts) = acked \o Pending
    /\ Cardinality({p \in Procs : pc[p] = "think_ret"}) <= 1

\* A Think was invoked, a clear then removed an acknowledged thought, and the
\* Think has appended after it: its entry is the only one.
C17_Witness ==
    \E p \in Procs :
        /\ pc[p] = "think_ret"
        /\ atCall[p].cut
        /\ dropped
        /\ Contents(thoughts) = <<arg[p]>>

\* C14: under fair scheduling every call in progress reaches its critical
\* section and returns, whatever the other goroutines do and whether calls
\* succeed or fail; and in every reachable state with a call in progress some
\* goroutine can take a step of its call.
C14_EveryCallReturns ==
    /\ \A p \in Procs :
          /\ (pc[p] \in {"think_lock", "get_lock", "clear_lock"}) ~> InCritical(p)
          /\ (pc[p] # "idle") ~> (pc[p] = "idle")
    /\ []((\E p \in Procs : pc[p] # "idle")
             => \E p \in Procs : ENABLED (Acquire(p) \/ Body(p)))

\* All MaxCalls calls have returned, Think calls among them that were in
\* progress at once, one goroutine's last call with an error and another's
\* with a result.
C14_Witness ==
    /\ \A p \in Procs : pc[p] = "idle"
    /\ calls = MaxCalls
    /\ overlap
    /\ \E p, q \in Procs :
          /\ result[p].op # "none" /\ result[p].err # ""
          /\ result[q].op # "none" /\ result[q].err = ""

====
